---- MODULE Spec2Model ----
(***************************************************************************)
(* CPU scheduling simulator (src/init.py): the Process record and the five *)
(* policy functions fcfs, sjf, srtf, round_robin and mlfq.                 *)
(*                                                                         *)
(* A run of one policy function is a state machine: one action for the     *)
(* function's prologue, then one action per part of an iteration of its    *)
(* main loop (the admission loop, the dispatch branch, the idle branch).   *)
(* pc is the position in the function: "start" (called, prologue not yet   *)
(* run), "admit" (loop head), "decide" (the `if ready:` / `if queue:`      *)
(* test, i.e. the decision point), "done" (returned).                      *)
(*                                                                         *)
(* Process ids are the strings "P1" .. "P9" of the GUI; the model keeps    *)
(* the number k for "Pk" (string order and number order agree on them).    *)
(* Python lists are 0-based, the sequences here 1-based: the model's idx   *)
(* is the source's idx + 1, so the source's `idx < n` reads idx <= n.      *)
(* Lists of Process objects that alias the objects of procs (ready, queue, *)
(* queues) are sequences of positions in procs.                            *)
(***************************************************************************)
EXTENDS Integers, Sequences, FiniteSets, TLC

VARIABLES
    algo,        \* the policy function that is running
    processes,   \* the list the caller passed to the policy function
    quantum,     \* round_robin's quantum argument
    quanta,      \* mlfq's quanta argument (level -> quantum)
    allotments,  \* mlfq's allotments argument (level -> allotment)
    procs,       \* the function's working list of Process objects
    time,        \* the simulated clock
    completed,   \* number of finished processes
    idx,         \* admission cursor into procs (fcfs: the for loop's position)
    gantt,       \* the timeline: sequence of <<label, duration>>
    ready,       \* sjf, srtf: the ready list
    queue,       \* round_robin: the FIFO queue
    queues,      \* mlfq: level -> queue
    in_queue,    \* round_robin, mlfq: set of queued pids
    level_time,  \* mlfq: pid -> level -> time used at that level
    last_pid,    \* occupant of the last timeline entry, None after an idle gap
    cur,         \* the local p of the last dispatch (position in procs), 0 if none
    qidx,        \* mlfq: the level of the last dispatch
    run_time,    \* length of the last dispatched slice
    pc,
    self_processes,      \* CPUSchedulerGUI.processes: the workload
    selected_algorithm,  \* the name in the algorithm variable
    self_quantum,        \* CPUSchedulerGUI.quantum
    mlfq_quanta,         \* level -> value of the quantum variable
    mlfq_allot,          \* level -> value of the allotment variable
    action_msg,          \* the message shown to the user
    gantt_data,          \* the timeline shown in the chart
    sim_running,         \* the flag start_simulation tests
    sim_threads,         \* number of simulate threads started and not returned
    sim_pc               \* position of the simulate thread

\* the fields of the CPUSchedulerGUI object and its simulate thread
gui == <<self_processes, selected_algorithm, self_quantum, mlfq_quanta,
         mlfq_allot, action_msg, gantt_data, sim_running, sim_threads, sim_pc>>

vars == <<algo, processes, quantum, quanta, allotments, procs, time, completed,
          idx, gantt, ready, queue, queues, in_queue, level_time, last_pid,
          cur, qidx, run_time, pc, gui>>

args == <<algo, processes, quantum, quanta, allotments>>

----------------------------------------------------------------------------
(* Bounds of the model *)

MaxProcs == 3       \* longest list of the short workloads
MaxArrival == 2     \* latest arrival of the short workloads
MaxBurst == 2       \* longest burst of the short workloads
MaxLongBurst == 8   \* longest burst of the two-process long workloads
MaxQuantum == 2     \* largest round_robin quantum, largest level-0 mlfq quantum
MaxAllot == 2       \* largest level-3 mlfq allotment
MaxGuiProcs == 2    \* longest workload entered in the GUI
MaxGuiArrival == 1  \* arrival entries of the GUI: -MaxGuiArrival..MaxGuiArrival
MaxGuiBurst == 1    \* burst entries of the GUI: -MaxGuiBurst..MaxGuiBurst
MaxGuiQuantum == 1  \* largest value given to the quantum variable
MaxPidEntry == 1    \* largest id typed into the PID field ("P1")
MaxInvalid == 1     \* most parameter variables that hold a value <= 0 at a time
MaxGuiGantt == 4    \* longest timeline of a call that does not return

(* Program constants *)

NumLevels == 4

Levels == 0..(NumLevels - 1)

\* CPUSchedulerGUI.__init__: tk.IntVar(value=1)
DefaultQuantum == 1

\* CPUSchedulerGUI.__init__: [2, 4, 8, 16]
DefaultQuanta == [L \in Levels |-> 2 ^ (L + 1)]

\* CPUSchedulerGUI.__init__: tk.IntVar(value=4) for each level
DefaultAllot == [L \in Levels |-> 4]

----------------------------------------------------------------------------
(* Data structures and utilities *)

None == <<>>

IDLE == <<"IDLE">>

\* the timeline label of a process: its pid
PidLabel(pid) == <<"P", pid>>

\* mlfq's timeline label f"{p.pid}(Q{qidx})"
MlfqLabel(pid, q) == <<"P", pid, "Q", q>>

Process(pid, arrival, burst) ==
    [pid |-> pid, arrival |-> arrival, burst |-> burst, remaining |-> burst,
     completion |-> 0, turnaround |-> 0, waiting |-> 0, response |-> -1,
     start |-> -1, queue_level |-> 0]

\* Min with the bug of always taking the first argument
MinFirst(a, b) == a

Min(a, b) == IF a <= b THEN a ELSE b

\* Python's order on tuples of integers of the same length
KeyLess(a, b) ==
    \E i \in 1..Len(a) : a[i] < b[i] /\ \A j \in 1..(i - 1) : a[j] = b[j]

\* Python's stable sort of the list s, where keys[i] is the key of s[i]
SortedBy(s, keys) ==
    LET len == Len(s)
        rank(i) == 1 + Cardinality({j \in 1..len :
                        \/ KeyLess(keys[j], keys[i])
                        \/ keys[j] = keys[i] /\ j < i})
    IN  [k \in 1..len |-> s[CHOOSE i \in 1..len : rank(i) = k]]

RECURSIVE SumDur(_)
SumDur(g) == IF g = <<>> THEN 0 ELSE g[1][2] + SumDur(Tail(g))

\* Append2 with the bug of entering every new timeline entry with duration 1
Append2Unit(g, label, d) == Append(g, <<label, 1>>)

\* gantt.append((label, d))
Append2(g, label, d) == Append(g, <<label, d>>)

\* Extend with the bug of overwriting the last entry's duration
ExtendOverwrite(g, d) == [g EXCEPT ![Len(g)] = <<g[Len(g)][1], d>>]

\* gantt[-1] = (gantt[-1][0], gantt[-1][1] + d)
Extend(g, d) == [g EXCEPT ![Len(g)] = <<g[Len(g)][1], g[Len(g)][2] + d>>]

\* AdmitEnd with the bug of not looking at the arrival time
AdmitEndAll(ps, i, t) == Len(ps) + 1

\* AdmitEnd with the bug of admitting only strictly earlier arrivals
RECURSIVE AdmitEndStrict(_, _, _)
AdmitEndStrict(ps, i, t) ==
    IF i <= Len(ps) /\ ps[i].arrival < t THEN AdmitEndStrict(ps, i + 1, t) ELSE i

\* the end of `while idx < n and procs[idx].arrival <= time: ...; idx += 1`
RECURSIVE AdmitEnd(_, _, _)
AdmitEnd(ps, i, t) ==
    IF i <= Len(ps) /\ ps[i].arrival <= t THEN AdmitEnd(ps, i + 1, t) ELSE i

\* the positions i .. j-1 as a list
Range(i, j) == [k \in 1..(j - i) |-> i + k - 1]

\* Finish with the bug of swapping completion and turnaround
FinishSwapped(p, t) ==
    [p EXCEPT !.completion = t - p.arrival,
              !.turnaround = t,
              !.waiting = (t - p.arrival) - p.burst]

\* Finish with the bug of taking waiting from the completion time
FinishWaitingFromCompletion(p, t) ==
    [p EXCEPT !.completion = t,
              !.turnaround = t - p.arrival,
              !.waiting = t - p.burst]

\* p.completion, p.turnaround and p.waiting as set when p finishes at time t
Finish(p, t) ==
    [p EXCEPT !.completion = t,
              !.turnaround = t - p.arrival,
              !.waiting = (t - p.arrival) - p.burst]

\* FirstRun with the bug of setting start and response at every dispatch
FirstRunEveryTime(p, t) == [p EXCEPT !.start = t, !.response = t - p.arrival]

\* p.start and p.response as set by `if p.start == -1:`
FirstRun(p, t) ==
    IF p.start = -1 THEN [p EXCEPT !.start = t, !.response = t - p.arrival]
    ELSE p

----------------------------------------------------------------------------
(* The arguments of a call *)

Perms(n) == {f \in [1..n -> 1..n] : \A i, j \in 1..n : i # j => f[i] # f[j]}

\* every list of at most MaxProcs short processes with unique ids,
\* arrival >= 0 and burst > 0, in every list order
ShortWorkloads ==
    UNION {{[i \in 1..k |-> Process(perm[i], arr[i], bur[i])] :
                perm \in Perms(k),
                arr \in [1..k -> 0..MaxArrival],
                bur \in [1..k -> 1..MaxBurst]} : k \in 1..MaxProcs}

\* P1 arriving at 0 and P2 arriving at 1, with long bursts
LongWorkloads ==
    {<<Process(1, 0, b1), Process(2, 1, b2)>> : b1, b2 \in 1..MaxLongBurst}

Workloads == ShortWorkloads \cup LongWorkloads

\* quanta that are the same at every level or grow by one per level
QuantaChoices ==
    {[L \in Levels |-> q + s * L] : q \in 1..MaxQuantum, s \in 0..1}

\* allotments that are the same at every level or shrink by one per level
AllotChoices ==
    {[L \in Levels |-> a + s * (NumLevels - 1 - L)] :
        a \in 1..MaxAllot, s \in 0..1}

NoParams == [L \in Levels |-> 0]

\* a message of action_msg
Msg(text) == <<text>>

\* the fields of the GUI object after CPUSchedulerGUI.__init__
GuiConstructed ==
    /\ self_processes = <<>>
    /\ selected_algorithm = "FCFS"
    /\ self_quantum = DefaultQuantum
    /\ mlfq_quanta = DefaultQuanta
    /\ mlfq_allot = DefaultAllot
    /\ action_msg = Msg("")
    /\ gantt_data = <<>>
    /\ sim_running = FALSE
    /\ sim_threads = 0
    /\ sim_pc = "none"

\* a policy function is called directly, with the GUI as constructed
Init ==
    /\ GuiConstructed
    /\ algo \in {"fcfs", "sjf", "srtf", "round_robin", "mlfq"}
    /\ processes \in Workloads
    /\ quantum \in IF algo = "round_robin" THEN 1..MaxQuantum ELSE {0}
    /\ quanta \in IF algo = "mlfq" THEN QuantaChoices ELSE {NoParams}
    /\ allotments \in IF algo = "mlfq" THEN AllotChoices ELSE {NoParams}
    /\ procs = <<>>
    /\ time = 0
    /\ completed = 0
    /\ idx = 1
    /\ gantt = <<>>
    /\ ready = <<>>
    /\ queue = <<>>
    /\ queues = [L \in Levels |-> <<>>]
    /\ in_queue = {}
    /\ level_time = <<>>
    /\ last_pid = None
    /\ cur = 0
    /\ qidx = 0
    /\ run_time = 0
    /\ pc = "start"

n == Len(procs)

\* LoopHead with the bug of leaving the loop one process early
LoopHeadOffByOne(c) == IF c + 1 < n THEN "admit" ELSE "done"

\* the loop test `while completed < n` after an iteration
LoopHead(c) == IF c < n THEN "admit" ELSE "done"

----------------------------------------------------------------------------
(* fcfs *)

FcfsKey(p) == <<p.arrival, p.pid>>

\* procs = sorted(processes, ...): a new list of the caller's objects
FcfsStart ==
    /\ pc = "start" /\ algo = "fcfs"
    /\ procs' = SortedBy(processes,
                    [i \in 1..Len(processes) |-> FcfsKey(processes[i])])
    /\ pc' = IF 0 < Len(processes) THEN "loop" ELSE "done"
    /\ UNCHANGED <<gui, args, time, completed, idx, gantt, ready, queue, queues,
                   in_queue, level_time, last_pid, cur, qidx, run_time>>

\* one iteration of `for p in procs`; the objects are the caller's, so the
\* assignments show in processes too
FcfsRun ==
    /\ pc = "loop" /\ algo = "fcfs" /\ idx <= n
    /\ LET p == procs[idx]
           t == IF time < p.arrival THEN p.arrival ELSE time
           g == IF time < p.arrival
                THEN Append2(gantt, IDLE, p.arrival - time) ELSE gantt
           q == [Finish(p, t + p.burst) EXCEPT !.start = t,
                     !.response = t - p.arrival, !.remaining = 0]
       IN  /\ procs' = [procs EXCEPT ![idx] = q]
           /\ processes' = [i \in 1..Len(processes) |->
                  IF processes[i].pid = p.pid THEN q ELSE processes[i]]
           /\ time' = q.completion
           /\ gantt' = Append2(g, PidLabel(p.pid), p.burst)
           /\ cur' = idx
           /\ run_time' = p.burst
    /\ idx' = idx + 1
    /\ pc' = IF idx' <= n THEN "loop" ELSE "done"
    /\ UNCHANGED <<gui, algo, quantum, quanta, allotments, completed, ready,
                   queue, queues, in_queue, level_time, last_pid, qidx>>

----------------------------------------------------------------------------
(* sjf *)

\* procs = [Process(p.pid, p.arrival, p.burst, p.priority) for p in processes]
Copies(ps) ==
    [i \in 1..Len(ps) |-> Process(ps[i].pid, ps[i].arrival, ps[i].burst)]

SjfProcsKey(p) == <<p.arrival, p.burst, p.pid>>

SjfStart ==
    /\ pc = "start" /\ algo = "sjf"
    /\ procs' = SortedBy(Copies(processes),
                    [i \in 1..Len(processes) |-> SjfProcsKey(processes[i])])
    /\ pc' = IF 0 < Len(processes) THEN "admit" ELSE "done"
    /\ UNCHANGED <<gui, args, time, completed, idx, gantt, ready, queue, queues,
                   in_queue, level_time, last_pid, cur, qidx, run_time>>

\* SjfReadyKey with the bug of ordering by arrival before burst
SjfReadyKeyArrivalFirst(i) ==
    <<procs[i].arrival, procs[i].burst, procs[i].pid>>

\* the key of ready.sort: (p.burst, p.arrival, p.pid) of procs[i]
SjfReadyKey(i) == <<procs[i].burst, procs[i].arrival, procs[i].pid>>

SjfAdmit ==
    /\ pc = "admit" /\ algo = "sjf"
    /\ idx' = AdmitEnd(procs, idx, time)
    /\ ready' = ready \o Range(idx, idx')
    /\ pc' = "decide"
    /\ UNCHANGED <<gui, args, procs, time, completed, gantt, queue, queues,
                   in_queue, level_time, last_pid, cur, qidx, run_time>>

SjfRun ==
    /\ pc = "decide" /\ algo = "sjf" /\ ready # <<>>
    /\ LET sorted == SortedBy(ready,
                         [k \in 1..Len(ready) |-> SjfReadyKey(ready[k])])
           i == Head(sorted)
           p == procs[i]
           t == IF time < p.arrival THEN p.arrival ELSE time
           g == IF time < p.arrival
                THEN Append2(gantt, IDLE, p.arrival - time) ELSE gantt
           q == [Finish(p, t + p.burst) EXCEPT !.start = t,
                     !.response = t - p.arrival, !.remaining = 0]
       IN  /\ ready' = Tail(sorted)
           /\ procs' = [procs EXCEPT ![i] = q]
           /\ time' = q.completion
           /\ gantt' = Append2(g, PidLabel(p.pid), p.burst)
           /\ cur' = i
           /\ run_time' = p.burst
    /\ completed' = completed + 1
    /\ pc' = LoopHead(completed')
    /\ UNCHANGED <<gui, args, idx, queue, queues, in_queue, level_time, last_pid,
                   qidx>>

SjfIdle ==
    /\ pc = "decide" /\ algo = "sjf" /\ ready = <<>>
    /\ IF idx <= n
       THEN /\ gantt' = Append2(gantt, IDLE, procs[idx].arrival - time)
            /\ time' = procs[idx].arrival
       ELSE UNCHANGED <<gantt, time>>
    /\ pc' = LoopHead(completed)
    /\ UNCHANGED <<gui, args, procs, completed, idx, ready, queue, queues,
                   in_queue, level_time, last_pid, cur, qidx, run_time>>

----------------------------------------------------------------------------
(* srtf *)

SrtfStart ==
    /\ pc = "start" /\ algo = "srtf"
    /\ procs' = Copies(processes)
    /\ pc' = IF 0 < Len(processes) THEN "admit" ELSE "done"
    /\ UNCHANGED <<gui, args, time, completed, idx, gantt, ready, queue, queues,
                   in_queue, level_time, last_pid, cur, qidx, run_time>>

SrtfAdmit ==
    /\ pc = "admit" /\ algo = "srtf"
    /\ idx' = AdmitEnd(procs, idx, time)
    /\ LET Keep(i) == procs[i].remaining > 0 /\ procs[i].arrival <= time
       IN  ready' = SelectSeq(ready \o Range(idx, idx'), Keep)
    /\ pc' = "decide"
    /\ UNCHANGED <<gui, args, procs, time, completed, gantt, queue, queues,
                   in_queue, level_time, last_pid, cur, qidx, run_time>>

\* SrtfKey with the bug of ordering by arrival before remaining
SrtfKeyArrivalFirst(i) ==
    <<procs[i].arrival, procs[i].remaining, procs[i].pid>>

\* the key of ready.sort: (p.remaining, p.arrival, p.pid) of procs[i]
SrtfKey(i) == <<procs[i].remaining, procs[i].arrival, procs[i].pid>>

SrtfRun ==
    /\ pc = "decide" /\ algo = "srtf" /\ ready # <<>>
    /\ LET sorted == SortedBy(ready,
                         [k \in 1..Len(ready) |-> SrtfKey(ready[k])])
           i == sorted[1]
           p == FirstRun(procs[i], time)
           r == [p EXCEPT !.remaining = p.remaining - 1]
           q == IF r.remaining = 0 THEN Finish(r, time + 1) ELSE r
       IN  /\ ready' = sorted
           /\ gantt' = IF last_pid # <<p.pid>>
                       THEN Append2(gantt, PidLabel(p.pid), 1)
                       ELSE Extend(gantt, 1)
           /\ procs' = [procs EXCEPT ![i] = q]
           /\ completed' = IF r.remaining = 0 THEN completed + 1 ELSE completed
           /\ last_pid' = <<p.pid>>
           /\ cur' = i
    /\ time' = time + 1
    /\ run_time' = 1
    /\ pc' = LoopHead(completed')
    /\ UNCHANGED <<gui, args, idx, queue, queues, in_queue, level_time, qidx>>

SrtfIdle ==
    /\ pc = "decide" /\ algo = "srtf" /\ ready = <<>>
    /\ IF idx <= n
       THEN /\ gantt' = Append2(gantt, IDLE, procs[idx].arrival - time)
            /\ time' = procs[idx].arrival
            /\ last_pid' = None
       ELSE UNCHANGED <<gantt, time, last_pid>>
    /\ pc' = LoopHead(completed)
    /\ UNCHANGED <<gui, args, procs, completed, idx, ready, queue, queues,
                   in_queue, level_time, cur, qidx, run_time>>

----------------------------------------------------------------------------
(* round_robin *)

RoundRobinStart ==
    /\ pc = "start" /\ algo = "round_robin"
    /\ procs' = Copies(processes)
    /\ pc' = IF 0 < Len(processes) THEN "admit" ELSE "done"
    /\ UNCHANGED <<gui, args, time, completed, idx, gantt, ready, queue, queues,
                   in_queue, level_time, last_pid, cur, qidx, run_time>>

\* RRAdmitLoop with the bug of not looking at in_queue
RECURSIVE RRAdmitLoopNoCheck(_, _, _)
RRAdmitLoopNoCheck(i, q, inq) ==
    IF i <= n /\ procs[i].arrival <= time
    THEN IF procs[i].remaining > 0
         THEN RRAdmitLoopNoCheck(i + 1, Append(q, i), inq \cup {procs[i].pid})
         ELSE RRAdmitLoopNoCheck(i + 1, q, inq)
    ELSE [idx |-> i, queue |-> q, in_queue |-> inq]

\* the admission loop at the head of an iteration: the state it leaves
RECURSIVE RRAdmitLoop(_, _, _)
RRAdmitLoop(i, q, inq) ==
    IF i <= n /\ procs[i].arrival <= time
    THEN IF procs[i].remaining > 0 /\ procs[i].pid \notin inq
         THEN RRAdmitLoop(i + 1, Append(q, i), inq \cup {procs[i].pid})
         ELSE RRAdmitLoop(i + 1, q, inq)
    ELSE [idx |-> i, queue |-> q, in_queue |-> inq]

RoundRobinAdmit ==
    /\ pc = "admit" /\ algo = "round_robin"
    /\ LET r == RRAdmitLoop(idx, queue, in_queue)
       IN  /\ idx' = r.idx
           /\ queue' = r.queue
           /\ in_queue' = r.in_queue
    /\ pc' = "decide"
    /\ UNCHANGED <<gui, args, procs, time, completed, gantt, ready, queues,
                   level_time, last_pid, cur, qidx, run_time>>

\* RRSliceArrivals with the bug of leaving the arrivals of the slice to the
\* admission loop of the next iteration
RRSliceArrivalsSkipped(ps, i, t, run, q, inq) ==
    [queue |-> q, in_queue |-> inq]

\* `for i in range(idx, n)` after a slice of length run that ends at t, over
\* the list ps: the arrivals of the slice that are appended to the queue
RECURSIVE RRSliceArrivals(_, _, _, _, _, _)
RRSliceArrivals(ps, i, t, run, q, inq) ==
    IF i <= Len(ps)
    THEN IF /\ ps[i].arrival > t - run
            /\ ps[i].arrival <= t
            /\ ps[i].remaining > 0
            /\ ps[i].pid \notin inq
         THEN RRSliceArrivals(ps, i + 1, t, run, Append(q, i),
                              inq \cup {ps[i].pid})
         ELSE RRSliceArrivals(ps, i + 1, t, run, q, inq)
    ELSE [queue |-> q, in_queue |-> inq]

\* RRRequeue with the bug of putting p back at the head of the queue
RRRequeueAtHead(q, inq, i, pid) ==
    IF pid \notin inq
    THEN [queue |-> <<i>> \o q, in_queue |-> inq \cup {pid}]
    ELSE [queue |-> q, in_queue |-> inq]

\* `if p.remaining > 0:` after the slice: re-append p unless its pid is queued
RRRequeue(q, inq, i, pid) ==
    IF pid \notin inq
    THEN [queue |-> Append(q, i), in_queue |-> inq \cup {pid}]
    ELSE [queue |-> q, in_queue |-> inq]

RoundRobinRun ==
    /\ pc = "decide" /\ algo = "round_robin" /\ queue # <<>>
    /\ LET i == Head(queue)
           p == FirstRun(procs[i], time)
           run == Min(quantum, p.remaining)
           t == time + run
           r == [p EXCEPT !.remaining = p.remaining - run]
           ps == [procs EXCEPT ![i] = r]
           a == RRSliceArrivals(ps, idx, t, run, Tail(queue),
                                in_queue \ {p.pid})
           b == IF r.remaining > 0
                THEN RRRequeue(a.queue, a.in_queue, i, p.pid)
                ELSE a
       IN  /\ gantt' = IF last_pid # <<p.pid>>
                       THEN Append2(gantt, PidLabel(p.pid), run)
                       ELSE Extend(gantt, run)
           /\ time' = t
           /\ procs' = IF r.remaining > 0 THEN ps
                       ELSE [procs EXCEPT ![i] = Finish(r, t)]
           /\ queue' = b.queue
           /\ in_queue' = b.in_queue
           /\ completed' = IF r.remaining > 0 THEN completed ELSE completed + 1
           /\ last_pid' = <<p.pid>>
           /\ cur' = i
           /\ run_time' = run
    /\ pc' = LoopHead(completed')
    /\ UNCHANGED <<gui, args, idx, ready, queues, level_time, qidx>>

RoundRobinIdle ==
    /\ pc = "decide" /\ algo = "round_robin" /\ queue = <<>>
    /\ IF idx <= n
       THEN /\ gantt' = Append2(gantt, IDLE, procs[idx].arrival - time)
            /\ time' = procs[idx].arrival
            /\ last_pid' = None
       ELSE UNCHANGED <<gantt, time, last_pid>>
    /\ pc' = LoopHead(completed)
    /\ UNCHANGED <<gui, args, procs, completed, idx, ready, queue, queues,
                   in_queue, level_time, cur, qidx, run_time>>

----------------------------------------------------------------------------
(* mlfq *)

MlfqStart ==
    /\ pc = "start" /\ algo = "mlfq"
    /\ procs' = Copies(processes)
    /\ level_time' = [pid \in {processes[i].pid : i \in 1..Len(processes)} |->
                          [L \in Levels |-> 0]]
    /\ pc' = IF 0 < Len(processes) THEN "admit" ELSE "done"
    /\ UNCHANGED <<gui, args, time, completed, idx, gantt, ready, queue, queues,
                   in_queue, last_pid, cur, qidx, run_time>>

\* `while idx < n and procs[idx].arrival <= time:` over the list ps at time t,
\* from cursor i: the cursor, queue 0 and in_queue it leaves; every admitted
\* process gets queue_level = 0
MlfqAdmitted(ps, i, t) == Range(i, AdmitEnd(ps, i, t))

MlfqEnter(ps, i, t) ==
    [k \in 1..Len(ps) |->
        IF k >= i /\ k < AdmitEnd(ps, i, t)
        THEN [ps[k] EXCEPT !.queue_level = 0] ELSE ps[k]]

PidsOf(ps, s) == {ps[s[k]].pid : k \in 1..Len(s)}

MlfqAdmit ==
    /\ pc = "admit" /\ algo = "mlfq"
    /\ idx' = AdmitEnd(procs, idx, time)
    /\ queues' = [queues EXCEPT ![0] = @ \o MlfqAdmitted(procs, idx, time)]
    /\ in_queue' = in_queue \cup PidsOf(procs, MlfqAdmitted(procs, idx, time))
    /\ procs' = MlfqEnter(procs, idx, time)
    /\ pc' = "decide"
    /\ UNCHANGED <<gui, args, time, completed, gantt, ready, queue, level_time,
                   last_pid, cur, qidx, run_time>>

\* FirstNonEmpty with the bug of taking the highest-numbered non-empty queue
FirstNonEmptyFromBottom(qs) ==
    IF \E L \in Levels : qs[L] # <<>>
    THEN CHOOSE L \in Levels :
            qs[L] # <<>> /\ \A K \in (L + 1)..(NumLevels - 1) : qs[K] = <<>>
    ELSE NumLevels

\* next((i for i, q in enumerate(queues) if q), None); NumLevels stands for None
FirstNonEmpty(qs) ==
    IF \E L \in Levels : qs[L] # <<>>
    THEN CHOOSE L \in Levels : qs[L] # <<>> /\ \A K \in 0..(L - 1) : qs[K] = <<>>
    ELSE NumLevels

\* MlfqRunTime with the bug of leaving out the allotment term
MlfqRunTimeNoAllot(p, L) == Min(quanta[L], p.remaining)

\* the slice of a dispatch at level L
MlfqRunTime(p, L) ==
    Min(Min(quanta[L], p.remaining), allotments[L] - level_time[p.pid][L])

\* MlfqNextLevel with the bug of wrapping around to level 0 after level 3
MlfqNextLevelWrap(L, used) ==
    IF used >= allotments[L] THEN (L + 1) % NumLevels ELSE L

\* the level at which an unfinished process is queued again after a slice at
\* level L that brought its time at that level to used
MlfqNextLevel(L, used) ==
    IF used >= allotments[L]
    THEN IF L < NumLevels - 1 THEN L + 1 ELSE L
    ELSE L

MlfqRun ==
    /\ pc = "decide" /\ algo = "mlfq" /\ FirstNonEmpty(queues) # NumLevels
    /\ LET L == FirstNonEmpty(queues)
           i == Head(queues[L])
           run == MlfqRunTime(procs[i], L)
           p == FirstRun(procs[i], time)
           t == time + run
           r == [p EXCEPT !.remaining = p.remaining - run]
           used == level_time[p.pid][L] + run
           ps == [procs EXCEPT ![i] = r]
           q1 == [[queues EXCEPT ![L] = Tail(@)]
                      EXCEPT ![0] = @ \o MlfqAdmitted(ps, idx, t)]
           ps1 == MlfqEnter(ps, idx, t)
           inq1 == (in_queue \ {p.pid}) \cup PidsOf(ps, MlfqAdmitted(ps, idx, t))
           NL == MlfqNextLevel(L, used)
       IN  /\ qidx' = L
           /\ cur' = i
           /\ run_time' = run
           /\ gantt' = IF last_pid # <<p.pid, L>>
                       THEN Append2(gantt, MlfqLabel(p.pid, L), run)
                       ELSE Extend(gantt, run)
           /\ time' = t
           /\ idx' = AdmitEnd(ps, idx, t)
           /\ IF r.remaining = 0
              THEN /\ procs' = [ps1 EXCEPT ![i] = Finish(r, t)]
                   /\ completed' = completed + 1
                   /\ queues' = q1
                   /\ in_queue' = inq1
                   /\ level_time' = [level_time EXCEPT ![p.pid][L] = used]
              ELSE /\ procs' = IF used >= allotments[L] /\ L < NumLevels - 1
                               THEN [ps1 EXCEPT ![i].queue_level = L + 1]
                               ELSE ps1
                   /\ completed' = completed
                   /\ queues' = [q1 EXCEPT ![NL] = Append(@, i)]
                   /\ in_queue' = inq1 \cup {p.pid}
                   /\ level_time' = [level_time EXCEPT ![p.pid][L] =
                                        IF used >= allotments[L] THEN 0 ELSE used]
           /\ last_pid' = <<p.pid, L>>
    /\ pc' = LoopHead(completed')
    /\ UNCHANGED <<gui, args, ready, queue>>

MlfqIdle ==
    /\ pc = "decide" /\ algo = "mlfq" /\ FirstNonEmpty(queues) = NumLevels
    /\ IF idx <= n
       THEN /\ gantt' = Append2(gantt, IDLE, procs[idx].arrival - time)
            /\ time' = procs[idx].arrival
            /\ last_pid' = None
       ELSE UNCHANGED <<gantt, time, last_pid>>
    /\ pc' = LoopHead(completed)
    /\ UNCHANGED <<gui, args, procs, completed, idx, ready, queue, queues,
                   in_queue, level_time, cur, qidx, run_time>>

----------------------------------------------------------------------------

Next ==
    \/ FcfsStart
    \/ FcfsRun
    \/ SjfStart
    \/ SjfAdmit
    \/ SjfRun
    \/ SjfIdle
    \/ SrtfStart
    \/ SrtfAdmit
    \/ SrtfRun
    \/ SrtfIdle
    \/ RoundRobinStart
    \/ RoundRobinAdmit
    \/ RoundRobinRun
    \/ RoundRobinIdle
    \/ MlfqStart
    \/ MlfqAdmit
    \/ MlfqRun
    \/ MlfqIdle

Spec == Init /\ [][Next]_vars

\* a call runs its statements one after the other until it returns: a step
\* that can be taken is taken
FairSpec == Init /\ [][Next]_vars /\ WF_vars(Next)

----------------------------------------------------------------------------
(* The GUI: the handlers of CPUSchedulerGUI run one at a time on the GUI   *)
(* thread; start_simulation starts a thread that runs simulate, which      *)
(* calls a policy function.  While that thread is inside the policy        *)
(* function, which reads and writes only its own locals, the model takes   *)
(* no step of a handler other than start_simulation: such a step commutes  *)
(* with the steps of the policy function, so it is taken before the call   *)
(* or after it.  The controls that update_gantt disables during the        *)
(* animation are taken as usable at any time.                              *)

\* the values of the algorithm combobox
AlgorithmNames == {"FCFS", "SJF", "SRTF", "Round Robin", "MLFQ"}

\* a name that the combobox does not offer; the variable can be set to it
OtherName == "Other"

\* the branch of simulate's if/elif chain that a name takes
PolicyOf(name) ==
    CASE name = "FCFS" -> "fcfs"
      [] name = "SJF" -> "sjf"
      [] name = "SRTF" -> "srtf"
      [] name = "Round Robin" -> "round_robin"
      [] name = "MLFQ" -> "mlfq"
      [] OTHER -> "none"

\* the text of an Entry: the decimal text of an integer, or a text that int()
\* rejects with ValueError
IntEntry(v) == [ok |-> TRUE, val |-> v]

NotANumber == [ok |-> FALSE, val |-> 0]

ArrivalEntries ==
    {NotANumber} \cup {IntEntry(v) : v \in (0 - MaxGuiArrival)..MaxGuiArrival}

BurstEntries ==
    {NotANumber} \cup {IntEntry(v) : v \in (0 - MaxGuiBurst)..MaxGuiBurst}

\* the text of pid_entry: 0 for the empty text, k for "Pk"
PidEntries == 0..MaxPidEntry

\* self.pid_entry.get() or f"P{len(self.processes)+1}"
EntryPid(e, ps) == IF e = 0 THEN Len(ps) + 1 ELSE e

\* AddRejection with the bug of not testing the burst
AddRejectionNoBurstTest(ps, pid, a, b) ==
    IF ~a.ok \/ ~b.ok THEN Msg("Invalid input values")
    ELSE IF \E i \in 1..Len(ps) : ps[i].pid = pid
    THEN Msg("Duplicate PID detected")
    ELSE None

\* AddRejection with the bug of not testing the pid
AddRejectionNoPidTest(ps, pid, a, b) ==
    IF ~a.ok \/ ~b.ok THEN Msg("Invalid input values")
    ELSE IF b.val <= 0 THEN Msg("Execution time must be greater than 0")
    ELSE None

\* the message with which add_process returns early, None if it goes on
AddRejection(ps, pid, a, b) ==
    IF ~a.ok \/ ~b.ok THEN Msg("Invalid input values")
    ELSE IF b.val <= 0 THEN Msg("Execution time must be greater than 0")
    ELSE IF \E i \in 1..Len(ps) : ps[i].pid = pid
    THEN Msg("Duplicate PID detected")
    ELSE None

AddProcess ==
    /\ sim_pc # "call"
    /\ \E e \in PidEntries, a \in ArrivalEntries, b \in BurstEntries :
        LET pid == EntryPid(e, self_processes)
            r == AddRejection(self_processes, pid, a, b)
        IN  IF r # None
            THEN action_msg' = r /\ UNCHANGED self_processes
            ELSE /\ Len(self_processes) < MaxGuiProcs
                 /\ self_processes' =
                        Append(self_processes, Process(pid, a.val, b.val))
                 /\ action_msg' = Msg("")
    /\ UNCHANGED <<algo, processes, quantum, quanta, allotments, procs, time,
                   completed, idx, gantt, ready, queue, queues, in_queue,
                   level_time, last_pid, cur, qidx, run_time, pc,
                   selected_algorithm, self_quantum, mlfq_quanta, mlfq_allot,
                   gantt_data, sim_running, sim_threads, sim_pc>>

\* the number of processes is the digit after the first character of the pid
\* text; arrival is random.randint(0, 5), burst is random.randint(1, 10)
GenerateRandom ==
    /\ sim_pc # "call"
    /\ \E e \in PidEntries :
        LET count == EntryPid(e, self_processes)
        IN  /\ count <= MaxGuiProcs
            /\ \E arr \in [1..count -> 0..MaxGuiArrival],
                  bur \in [1..count -> 1..MaxGuiBurst] :
                self_processes' =
                    [i \in 1..count |-> Process(i, arr[i], bur[i])]
    /\ action_msg' = Msg("Random processes generated")
    /\ UNCHANGED <<algo, processes, quantum, quanta, allotments, procs, time,
                   completed, idx, gantt, ready, queue, queues, in_queue,
                   level_time, last_pid, cur, qidx, run_time, pc,
                   selected_algorithm, self_quantum, mlfq_quanta, mlfq_allot,
                   gantt_data, sim_running, sim_threads, sim_pc>>

ClearProcesses ==
    /\ sim_pc # "call"
    /\ self_processes' = <<>>
    /\ action_msg' = Msg("All processes cleared")
    /\ UNCHANGED <<algo, processes, quantum, quanta, allotments, procs, time,
                   completed, idx, gantt, ready, queue, queues, in_queue,
                   level_time, last_pid, cur, qidx, run_time, pc,
                   selected_algorithm, self_quantum, mlfq_quanta, mlfq_allot,
                   gantt_data, sim_running, sim_threads, sim_pc>>

\* clear_processes, then the canvas, the status rows and the averages are
\* emptied
ResetAll ==
    /\ sim_pc # "call"
    /\ self_processes' = <<>>
    /\ action_msg' = Msg("Everything has been reset")
    /\ UNCHANGED <<algo, processes, quantum, quanta, allotments, procs, time,
                   completed, idx, gantt, ready, queue, queues, in_queue,
                   level_time, last_pid, cur, qidx, run_time, pc,
                   selected_algorithm, self_quantum, mlfq_quanta, mlfq_allot,
                   gantt_data, sim_running, sim_threads, sim_pc>>

\* the number of parameter variables that hold a value <= 0
InvalidCount(q, qs, al) ==
    (IF q <= 0 THEN 1 ELSE 0)
        + Cardinality({L \in Levels : qs[L] <= 0})
        + Cardinality({L \in Levels : al[L] <= 0})

\* the algorithm variable is given a name: one of the five of the menu, or,
\* by a set() of the variable, another one
SelectAlgorithm ==
    /\ sim_pc # "call"
    /\ selected_algorithm' \in AlgorithmNames \cup {OtherName}
    /\ UNCHANGED <<algo, processes, quantum, quanta, allotments, procs, time,
                   completed, idx, gantt, ready, queue, queues, in_queue,
                   level_time, last_pid, cur, qidx, run_time, pc,
                   self_processes, self_quantum, mlfq_quanta, mlfq_allot,
                   action_msg, gantt_data, sim_running, sim_threads, sim_pc>>

\* the quantum variable is given a value: one of the scale, or, by a set() of
\* the variable, 0
SetQuantum ==
    /\ sim_pc # "call"
    /\ self_quantum' \in 0..MaxGuiQuantum
    /\ InvalidCount(self_quantum', mlfq_quanta, mlfq_allot) <= MaxInvalid
    /\ UNCHANGED <<algo, processes, quantum, quanta, allotments, procs, time,
                   completed, idx, gantt, ready, queue, queues, in_queue,
                   level_time, last_pid, cur, qidx, run_time, pc,
                   self_processes, selected_algorithm, mlfq_quanta, mlfq_allot,
                   action_msg, gantt_data, sim_running, sim_threads, sim_pc>>

\* the levels whose variables are edited: the first and the last
EditLevels == {0, NumLevels - 1}

\* the quantum variable of a level is given 0 or its first value
SetMlfqQuantum ==
    /\ sim_pc # "call"
    /\ \E L \in EditLevels : \E v \in {0, DefaultQuanta[L]} :
        mlfq_quanta' = [mlfq_quanta EXCEPT ![L] = v]
    /\ InvalidCount(self_quantum, mlfq_quanta', mlfq_allot) <= MaxInvalid
    /\ UNCHANGED <<algo, processes, quantum, quanta, allotments, procs, time,
                   completed, idx, gantt, ready, queue, queues, in_queue,
                   level_time, last_pid, cur, qidx, run_time, pc,
                   self_processes, selected_algorithm, self_quantum, mlfq_allot,
                   action_msg, gantt_data, sim_running, sim_threads, sim_pc>>

\* the allotment variable of a level is given 0 or its first value
SetMlfqAllot ==
    /\ sim_pc # "call"
    /\ \E L \in EditLevels : \E v \in {0, DefaultAllot[L]} :
        mlfq_allot' = [mlfq_allot EXCEPT ![L] = v]
    /\ InvalidCount(self_quantum, mlfq_quanta, mlfq_allot') <= MaxInvalid
    /\ UNCHANGED <<algo, processes, quantum, quanta, allotments, procs, time,
                   completed, idx, gantt, ready, queue, queues, in_queue,
                   level_time, last_pid, cur, qidx, run_time, pc,
                   self_processes, selected_algorithm, self_quantum, mlfq_quanta,
                   action_msg, gantt_data, sim_running, sim_threads, sim_pc>>

\* the first level whose value is <= 0
FirstBad(f) == CHOOSE L \in Levels : f[L] <= 0 /\ \A K \in 0..(L - 1) : f[K] > 0

\* StartRejection with the bug of not testing sim_running
StartRejectionNoRunningTest(ps, running, name, q, qs, al) ==
    IF ps = <<>> THEN Msg("No processes to simulate")
    ELSE IF name = "Round Robin" /\ q <= 0
    THEN Msg("Time quantum must be greater than 0")
    ELSE IF name = "MLFQ" /\ \E L \in Levels : qs[L] <= 0
    THEN <<"Queue quantum must be greater than 0", FirstBad(qs)>>
    ELSE IF name = "MLFQ" /\ \E L \in Levels : al[L] <= 0
    THEN <<"Queue allotment must be greater than 0", FirstBad(al)>>
    ELSE None

\* StartRejection with the bug of not testing the allotments
StartRejectionNoAllotTest(ps, running, name, q, qs, al) ==
    IF ps = <<>> THEN Msg("No processes to simulate")
    ELSE IF running THEN Msg("Simulation already running")
    ELSE IF name = "Round Robin" /\ q <= 0
    THEN Msg("Time quantum must be greater than 0")
    ELSE IF name = "MLFQ" /\ \E L \in Levels : qs[L] <= 0
    THEN <<"Queue quantum must be greater than 0", FirstBad(qs)>>
    ELSE None

\* the message with which start_simulation returns early, None if it goes on
StartRejection(ps, running, name, q, qs, al) ==
    IF ps = <<>> THEN Msg("No processes to simulate")
    ELSE IF running THEN Msg("Simulation already running")
    ELSE IF name = "Round Robin" /\ q <= 0
    THEN Msg("Time quantum must be greater than 0")
    ELSE IF name = "MLFQ" /\ \E L \in Levels : qs[L] <= 0
    THEN <<"Queue quantum must be greater than 0", FirstBad(qs)>>
    ELSE IF name = "MLFQ" /\ \E L \in Levels : al[L] <= 0
    THEN <<"Queue allotment must be greater than 0", FirstBad(al)>>
    ELSE None

\* start_simulation; the thread it starts is at the beginning of simulate
StartSimulation ==
    /\ LET r == StartRejection(self_processes, sim_running, selected_algorithm,
                               self_quantum, mlfq_quanta, mlfq_allot)
       IN  IF r # None
           THEN /\ action_msg' = r
                /\ UNCHANGED <<sim_running, sim_threads, sim_pc>>
           ELSE /\ sim_running' = TRUE
                /\ sim_threads' = sim_threads + 1
                /\ sim_pc' = IF sim_pc = "none" THEN "begin" ELSE sim_pc
                /\ UNCHANGED action_msg
    /\ UNCHANGED <<algo, processes, quantum, quanta, allotments, procs, time,
                   completed, idx, gantt, ready, queue, queues, in_queue,
                   level_time, last_pid, cur, qidx, run_time, pc,
                   self_processes, selected_algorithm, self_quantum,
                   mlfq_quanta, mlfq_allot, gantt_data>>

\* the key of simulate's sorted(): (p.arrival, p.pid)
SimulateKey(p) == <<p.arrival, p.pid>>

\* simulate up to the call of the policy function that the name selects:
\* the call gets copies of the workload, sorted, and the parameter values
SimulateCall ==
    /\ sim_pc = "begin" /\ PolicyOf(selected_algorithm) # "none"
    /\ algo' = PolicyOf(selected_algorithm)
    /\ processes' = Copies(SortedBy(self_processes,
                        [i \in 1..Len(self_processes) |->
                            SimulateKey(self_processes[i])]))
    /\ quantum' = IF algo' = "round_robin" THEN self_quantum ELSE 0
    /\ quanta' = IF algo' = "mlfq" THEN mlfq_quanta ELSE NoParams
    /\ allotments' = IF algo' = "mlfq" THEN mlfq_allot ELSE NoParams
    /\ procs' = <<>> /\ time' = 0 /\ completed' = 0 /\ idx' = 1
    /\ gantt' = <<>> /\ ready' = <<>> /\ queue' = <<>>
    /\ queues' = [L \in Levels |-> <<>>] /\ in_queue' = {}
    /\ level_time' = <<>> /\ last_pid' = None
    /\ cur' = 0 /\ qidx' = 0 /\ run_time' = 0
    /\ pc' = "start"
    /\ sim_pc' = "call"
    /\ UNCHANGED <<self_processes, selected_algorithm, self_quantum,
                   mlfq_quanta, mlfq_allot, action_msg, gantt_data, sim_running,
                   sim_threads>>

\* simulate with a name that none of the branches takes
SimulateUnknown ==
    /\ sim_pc = "begin" /\ PolicyOf(selected_algorithm) = "none"
    /\ action_msg' = Msg("Unknown algorithm")
    /\ sim_running' = FALSE
    /\ sim_threads' = sim_threads - 1
    /\ sim_pc' = "none"
    /\ UNCHANGED <<algo, processes, quantum, quanta, allotments, procs, time,
                   completed, idx, gantt, ready, queue, queues, in_queue,
                   level_time, last_pid, cur, qidx, run_time, pc,
                   self_processes, selected_algorithm, self_quantum,
                   mlfq_quanta, mlfq_allot, gantt_data>>

\* simulate after the policy function has returned: the timeline is stored,
\* the display is updated, sim_running is cleared and the thread ends
SimulateEnd ==
    /\ sim_pc = "call" /\ pc = "done"
    /\ gantt_data' = gantt
    /\ sim_running' = FALSE
    /\ sim_threads' = sim_threads - 1
    /\ sim_pc' = "none"
    /\ algo' = "none" /\ processes' = <<>> /\ quantum' = 0
    /\ quanta' = NoParams /\ allotments' = NoParams
    /\ procs' = <<>> /\ time' = 0 /\ completed' = 0 /\ idx' = 1
    /\ gantt' = <<>> /\ ready' = <<>> /\ queue' = <<>>
    /\ queues' = [L \in Levels |-> <<>>] /\ in_queue' = {}
    /\ level_time' = <<>> /\ last_pid' = None
    /\ cur' = 0 /\ qidx' = 0 /\ run_time' = 0
    /\ pc' = "idle"
    /\ UNCHANGED <<self_processes, selected_algorithm, self_quantum,
                   mlfq_quanta, mlfq_allot, action_msg>>

\* the GUI after construction: no policy function has been called
GuiInit ==
    /\ GuiConstructed
    /\ algo = "none" /\ processes = <<>> /\ quantum = 0
    /\ quanta = NoParams /\ allotments = NoParams
    /\ procs = <<>> /\ time = 0 /\ completed = 0 /\ idx = 1
    /\ gantt = <<>> /\ ready = <<>> /\ queue = <<>>
    /\ queues = [L \in Levels |-> <<>>] /\ in_queue = {}
    /\ level_time = <<>> /\ last_pid = None
    /\ cur = 0 /\ qidx = 0 /\ run_time = 0
    /\ pc = "idle"

\* a step of the policy function that simulate has called; a call that the
\* parameters keep from returning is followed while its timeline is short
PolicyStep == sim_pc = "call" /\ Len(gantt) < MaxGuiGantt /\ Next

GuiNext ==
    \/ AddProcess
    \/ GenerateRandom
    \/ ClearProcesses
    \/ ResetAll
    \/ SelectAlgorithm
    \/ SetQuantum
    \/ SetMlfqQuantum
    \/ SetMlfqAllot
    \/ StartSimulation
    \/ SimulateCall
    \/ SimulateUnknown
    \/ SimulateEnd
    \/ PolicyStep

GuiSpec == GuiInit /\ [][GuiNext]_vars

----------------------------------------------------------------------------
(* Properties *)

\* the function has returned procs and gantt
Returned == pc = "done"

\* the caller's list is ordered by arrival, as simulate supplies it
ArrivalOrdered ==
    \A i, j \in 1..Len(processes) :
        i < j => processes[i].arrival <= processes[j].arrival

\* position in procs of the process with the given pid
ByPid(pid) == CHOOSE i \in 1..n : procs[i].pid = pid

RECURSIVE SumBurst(_)
SumBurst(ps) == IF ps = <<>> THEN 0 ELSE ps[1].burst + SumBurst(Tail(ps))

RECURSIVE IdleTime(_)
IdleTime(g) ==
    IF g = <<>> THEN 0
    ELSE (IF g[1][1] = IDLE THEN g[1][2] ELSE 0) + IdleTime(Tail(g))

MaxCompletion ==
    CHOOSE c \in {procs[i].completion : i \in 1..n} :
        \A i \in 1..n : procs[i].completion <= c

\* C1: in the list each of the five policies returns, every process has
\* turnaround = waiting + burst, turnaround = completion - arrival and
\* response = start - arrival.
C1_MetricIdentities ==
    Returned =>
        \A i \in 1..n :
            /\ procs[i].turnaround = procs[i].waiting + procs[i].burst
            /\ procs[i].turnaround = procs[i].completion - procs[i].arrival
            /\ procs[i].response = procs[i].start - procs[i].arrival

\* a returned round_robin run of three processes in which one that arrived
\* after time 0 waited, both before its first dispatch and after it
C1_Witness ==
    /\ Returned /\ algo = "round_robin" /\ n = 3
    /\ \E i \in 1..n :
        /\ procs[i].arrival > 0
        /\ procs[i].response > 0
        /\ procs[i].waiting > procs[i].response

\* C2: when a run ends, the durations of the timeline add up to the largest
\* completion time, which is the final clock, and to the sum of the bursts
\* plus the durations of the IDLE entries.
C2_TimelineSum ==
    Returned =>
        /\ SumDur(gantt) = MaxCompletion
        /\ MaxCompletion = time
        /\ SumDur(gantt) = SumBurst(procs) + IdleTime(gantt)

\* a returned srtf run with an idle gap and an extended timeline entry
C2_Witness ==
    /\ Returned /\ algo = "srtf"
    /\ IdleTime(gantt) > 0
    /\ \E k \in 1..Len(gantt) : gantt[k][1] # IDLE /\ gantt[k][2] > 1

\* the call of the Round-Robin scenario: quantum 2 on P1(0,5), P2(1,3)
ScenarioRR ==
    /\ algo = "round_robin" /\ quantum = 2
    /\ processes = <<Process(1, 0, 5), Process(2, 1, 3)>>

ScenarioRRTimeline ==
    <<<<PidLabel(1), 2>>, <<PidLabel(2), 2>>, <<PidLabel(1), 2>>,
      <<PidLabel(2), 1>>, <<PidLabel(1), 1>>>>

\* C3 as stated: the Round-Robin scenario returns the timeline
\* [(P1,2),(P2,2),(P1,2),(P2,1),(P1,1)] with P1.completion = 8 and
\* P2.completion = 6.
C3_ScenarioAsStated ==
    (ScenarioRR /\ Returned) =>
        /\ gantt = ScenarioRRTimeline
        /\ procs[ByPid(1)].completion = 8
        /\ procs[ByPid(2)].completion = 6

\* C3: the Round-Robin scenario returns the timeline
\* [(P1,2),(P2,2),(P1,2),(P2,1),(P1,1)] with P1.completion = 8 and
\* P2.completion = 7 (P2's last slice is the fourth entry, which ends at 7).
C3_Scenario ==
    (ScenarioRR /\ Returned) =>
        /\ gantt = ScenarioRRTimeline
        /\ procs[ByPid(1)].completion = 8
        /\ procs[ByPid(2)].completion = 7

\* the Round-Robin scenario has returned
C3_Witness == ScenarioRR /\ Returned /\ completed = 2

\* the elements of the list s
Elems(s) == {s[k] : k \in 1..Len(s)}

\* the mlfq level at which procs[i] is queued, -1 if it is in no queue
LevelOf(i) ==
    IF \E L \in Levels : i \in Elems(queues[L])
    THEN CHOOSE L \in Levels : i \in Elems(queues[L])
    ELSE -1

\* procs[i] is in the ready structure of the running policy
Queued(i) ==
    CASE algo = "srtf" -> i \in Elems(ready)
      [] algo = "round_robin" -> i \in Elems(queue)
      [] algo = "mlfq" -> LevelOf(i) >= 0
      [] OTHER -> FALSE

\* procs[i] has arrived and is unfinished
Pending(i) == procs[i].arrival <= time /\ procs[i].remaining > 0

\* procs[i] runs in this step
Runs(i) == procs'[i].remaining < procs[i].remaining

\* this step appends an IDLE entry to the timeline
IdleAppended ==
    Len(gantt') = Len(gantt) + 1 /\ gantt'[Len(gantt')][1] = IDLE

\* the order of ready.sort in srtf: (remaining, arrival, pid)
RemainingBefore(i, j) ==
    \/ procs[i].remaining < procs[j].remaining
    \/ /\ procs[i].remaining = procs[j].remaining
       /\ \/ procs[i].arrival < procs[j].arrival
          \/ procs[i].arrival = procs[j].arrival /\ procs[i].pid < procs[j].pid

\* C4: in srtf on a list ordered by arrival, the process that runs for a time
\* unit comes before every other arrived, unfinished process in the order
\* (remaining, arrival, id): none of them has a strictly smaller remaining time.
C4_SrtfShortestRuns ==
    [][(algo = "srtf" /\ ArrivalOrdered) =>
        \A i \in 1..n : Runs(i) =>
            \A j \in 1..n : (j # i /\ Pending(j)) => RemainingBefore(i, j)]_vars

\* srtf has just started a process while another one, started earlier, is
\* unfinished: a preemption
C4_Witness ==
    /\ algo = "srtf" /\ ArrivalOrdered /\ cur # 0
    /\ procs[cur].start = time - 1
    /\ \E j \in 1..n :
        /\ j # cur /\ procs[j].start # -1 /\ procs[j].start < time - 1
        /\ procs[j].remaining > procs[cur].remaining + 1

\* C5 as stated: in srtf, round_robin and mlfq, for input lists in any order,
\* at every decision point every arrived, unfinished process is in the ready
\* structure.
C5_AnyOrderAdmission ==
    (pc = "decide" /\ algo \in {"srtf", "round_robin", "mlfq"}) =>
        \A i \in 1..n : Pending(i) => Queued(i)

\* C5: in srtf, round_robin and mlfq, for input lists ordered by arrival, at
\* every decision point every arrived, unfinished process is in the ready
\* structure, and an IDLE entry is appended only when no arrived process is
\* unfinished.
C5_OrderedAdmission ==
    /\ [](ArrivalOrdered => C5_AnyOrderAdmission)
    /\ [][(ArrivalOrdered /\ algo \in {"srtf", "round_robin", "mlfq"}
             /\ IdleAppended) =>
            \A i \in 1..n : ~Pending(i)]_vars

\* a decision point of round_robin after an idle gap, on a list that is
\* ordered by arrival but not by id, with two processes in the queue
C5_Witness ==
    /\ pc = "decide" /\ algo = "round_robin" /\ ArrivalOrdered
    /\ IdleTime(gantt) > 0
    /\ Len(queue) = 2
    /\ processes[1].pid > processes[2].pid

\* C6: in round_robin the queue holds each process at most once, holds no
\* process with remaining = 0, and in_queue is the set of the ids in the queue.
C6_QueueWellFormed ==
    algo = "round_robin" =>
        /\ \A k, l \in 1..Len(queue) : k # l => queue[k] # queue[l]
        /\ \A k \in 1..Len(queue) : procs[queue[k]].remaining > 0
        /\ in_queue = {procs[queue[k]].pid : k \in 1..Len(queue)}

\* round_robin has put the process it just ran back behind another one,
\* after a process has finished
C6_Witness ==
    /\ algo = "round_robin" /\ pc = "admit"
    /\ completed >= 1
    /\ Len(queue) >= 2 /\ queue[Len(queue)] = cur

\* C7: in round_robin, after a slice (t0, t1] that leaves p unfinished, the
\* queue is: the processes that were queued behind p, in their order, then
\* the processes that arrived in (t0, t1], then p.
C7_ArrivalsBeforeRequeue ==
    [][algo = "round_robin" =>
        \A i \in 1..n : (Runs(i) /\ procs'[i].remaining > 0) =>
            /\ \A k \in 1..(Len(queue) - 1) : queue'[k] = queue[k + 1]
            /\ queue'[Len(queue')] = i
            /\ \A j \in 1..n :
                (procs[j].arrival > time /\ procs[j].arrival <= time') =>
                    \E k \in Len(queue)..(Len(queue') - 1) : queue'[k] = j]_vars

\* round_robin has left the queue as: a process admitted before the slice, a
\* process that arrived during the slice, the process that ran
C7_Witness ==
    /\ algo = "round_robin" /\ pc = "admit" /\ cur # 0
    /\ Len(queue) = 3 /\ queue[3] = cur
    /\ procs[queue[1]].arrival <= time - run_time
    /\ procs[queue[2]].arrival > time - run_time

\* C8: in mlfq, the time a process has used at a level never exceeds the
\* level's allotment, and every dispatch at level L runs for at least 1 and
\* at most min(quanta[L], remaining, allotments[L] - level_time[p][L]).
C8_AllotmentRespected ==
    /\ [](algo = "mlfq" =>
            \A pid \in DOMAIN level_time : \A L \in Levels :
                level_time[pid][L] <= allotments[L])
    /\ [][algo = "mlfq" =>
            \A i \in 1..n : Runs(i) =>
                LET L == LevelOf(i)
                    run == time' - time
                IN  /\ run >= 1
                    /\ run = procs[i].remaining - procs'[i].remaining
                    /\ run <= quanta[L]
                    /\ run <= procs[i].remaining
                    /\ run <= allotments[L] - level_time[procs[i].pid][L]]_vars

\* mlfq has cut a slice short of the quantum and of the remaining time: the
\* rest of the allotment was the limit
C8_Witness ==
    /\ algo = "mlfq" /\ pc = "admit" /\ cur # 0
    /\ run_time < quanta[qidx]
    /\ procs[cur].remaining > 0

\* C9: in mlfq, a process left unfinished by a slice at level L goes to the
\* back of queue L+1 (queue 3 when L = 3) with level_time[p][L] reset to 0 if
\* its time at L has reached the allotment, and to the back of queue L
\* otherwise; a process is first queued at level 0, its level never decreases,
\* and it leaves the queues only when it has finished.
C9_DemotionOnly ==
    [][algo = "mlfq" =>
        \A i \in 1..Len(procs') :
            /\ (i <= n /\ Runs(i) /\ procs'[i].remaining > 0) =>
                LET L == LevelOf(i)
                    pid == procs[i].pid
                    used == level_time[pid][L] + (time' - time)
                    NL == IF used < allotments[L] THEN L
                          ELSE IF L < 3 THEN L + 1 ELSE 3
                IN  /\ queues'[NL] # <<>>
                    /\ queues'[NL][Len(queues'[NL])] = i
                    /\ LevelOf(i)' = NL
                    /\ level_time'[pid][L] =
                           IF used < allotments[L] THEN used ELSE 0
            /\ (LevelOf(i) >= 0 /\ LevelOf(i)' >= 0) => LevelOf(i)' >= LevelOf(i)
            /\ (LevelOf(i) = -1 /\ LevelOf(i)' >= 0) =>
                   LevelOf(i)' = 0 /\ procs'[i].start = -1
            /\ (LevelOf(i) >= 0 /\ LevelOf(i)' = -1) =>
                   procs'[i].remaining = 0]_vars

\* mlfq has run a process at level 3 to the end of its allotment and queued
\* it at level 3 again, with its time at level 3 reset
C9_Witness ==
    /\ algo = "mlfq" /\ pc = "admit" /\ cur # 0 /\ qidx = 3
    /\ LevelOf(cur) = 3
    /\ run_time > 0
    /\ level_time[procs[cur].pid][3] = 0

\* C10: in mlfq on a list ordered by arrival, when a process is dispatched
\* every arrived, unfinished process is in a queue, the dispatched process is
\* the head of its queue, and every queue of a lower level number is empty.
C10_StrictPriority ==
    [][(algo = "mlfq" /\ ArrivalOrdered) =>
        \A i \in 1..n : Runs(i) =>
            /\ \A j \in 1..n : Pending(j) => LevelOf(j) >= 0
            /\ LevelOf(i) >= 0
            /\ Head(queues[LevelOf(i)]) = i
            /\ \A K \in 0..(LevelOf(i) - 1) : queues[K] = <<>>]_vars

\* mlfq has dispatched a new arrival from queue 0 while a process that
\* started earlier waits at level 1
C10_Witness ==
    /\ algo = "mlfq" /\ ArrivalOrdered /\ pc = "admit" /\ cur # 0 /\ qidx = 0
    /\ procs[cur].start = time - run_time
    /\ \E j \in 1..n :
        /\ j # cur /\ LevelOf(j) = 1
        /\ procs[j].start # -1 /\ procs[j].start < procs[cur].start

\* C11: in every policy, every timeline entry has a duration >= 1 and a
\* label different from the label of the entry just before it.
C11_TimelineEntries ==
    \A k \in 1..Len(gantt) :
        /\ gantt[k][2] >= 1
        /\ k > 1 => gantt[k][1] # gantt[k - 1][1]

\* a returned mlfq run whose timeline has an idle gap followed by an entry of
\* merged slices (longer than the quantum of its level)
C11_Witness ==
    /\ Returned /\ algo = "mlfq"
    /\ \E k \in 2..Len(gantt) : \E pid \in 1..MaxProcs : \E L \in Levels :
        /\ gantt[k - 1][1] = IDLE
        /\ gantt[k][1] = MlfqLabel(pid, L)
        /\ gantt[k][2] > quanta[L]

\* the policies that run a process in slices
Sliced == algo \in {"srtf", "round_robin", "mlfq"}

\* C12: in srtf, round_robin and mlfq, every process has
\* 0 <= remaining <= burst in every state of the run, and no step increases
\* the remaining time of a process.
C12_RemainingBounded ==
    /\ [](Sliced => \A i \in 1..n :
            0 <= procs[i].remaining /\ procs[i].remaining <= procs[i].burst)
    /\ [][Sliced => \A i \in 1..n :
            procs'[i].remaining <= procs[i].remaining]_vars

\* round_robin has cut the last slice of a process short of the quantum
\* (remaining reached 0 exactly) while another process is part-way through
C12_Witness ==
    /\ algo = "round_robin" /\ cur # 0
    /\ procs[cur].remaining = 0 /\ run_time < quantum
    /\ \E j \in 1..n :
        0 < procs[j].remaining /\ procs[j].remaining < procs[j].burst

\* this step dispatches procs[i]: it makes procs[i] the occupant of the end
\* of the timeline
Dispatched(i) == cur' = i /\ gantt' # gantt /\ ~IdleAppended

\* C13: in every policy, start changes only at the first dispatch of the
\* process, to the clock value of the dispatch; completion changes only in the
\* step that brings remaining to 0, to the clock value after that step; and a
\* process with remaining = 0 is not dispatched and its record does not change.
C13_AssignedOnce ==
    [][\A i \in 1..n :
        /\ procs'[i].start # procs[i].start =>
               Dispatched(i) /\ procs[i].start = -1
                   /\ procs[i].remaining = procs[i].burst
        /\ (Dispatched(i) /\ procs[i].start = -1) =>
               procs'[i].start = time' - run_time' /\ procs'[i].start >= 0
        /\ procs'[i].completion # procs[i].completion =>
               Dispatched(i) /\ procs[i].remaining > 0
                   /\ procs'[i].remaining = 0
        /\ (procs[i].remaining > 0 /\ procs'[i].remaining = 0) =>
               procs'[i].completion = time' /\ procs'[i].completion > 0
        /\ procs[i].remaining = 0 =>
               ~Dispatched(i) /\ procs'[i] = procs[i]]_vars

\* round_robin has finished a process on a later dispatch than its first,
\* after another process ran in between, and goes on with the others
C13_Witness ==
    /\ algo = "round_robin" /\ pc = "admit" /\ cur # 0
    /\ procs[cur].remaining = 0
    /\ procs[cur].completion = time
    /\ procs[cur].start >= 0
    /\ procs[cur].start + procs[cur].burst < time

\* C14: in the list each of the five policies returns, every process has
\* start >= arrival, response >= 0 and waiting >= 0, and neither start nor
\* response is still -1.
C14_NoSentinelLeft ==
    Returned =>
        \A i \in 1..n :
            /\ procs[i].start >= procs[i].arrival
            /\ procs[i].response >= 0
            /\ procs[i].waiting >= 0
            /\ procs[i].start # -1
            /\ procs[i].response # -1

\* a returned mlfq run of three processes: one started on arrival and waited
\* later, one was first dispatched after its arrival, one arrived at time 0
C14_Witness ==
    /\ Returned /\ algo = "mlfq" /\ n = 3
    /\ \E i, j, k \in 1..n :
        /\ procs[i].response = 0 /\ procs[i].waiting > 0
        /\ procs[j].response > 0
        /\ procs[k].arrival = 0 /\ procs[i].arrival > 0

\* the policies that run a process to the end
RunToEnd == algo \in {"fcfs", "sjf"}

\* the timeline entries of the process with the given pid
EntriesOf(pid) == {k \in 1..Len(gantt) : gantt[k][1] = PidLabel(pid)}

\* the clock value at which the timeline entry k begins
BeginOf(k) == SumDur(SubSeq(gantt, 1, k - 1))

\* C15: in fcfs and sjf, a process that has run has one timeline entry, which
\* begins at its start and lasts burst time units, with
\* completion - start = burst and start >= arrival; the intervals
\* [start, completion) of two processes do not overlap; a process that has not
\* run has no timeline entry.
C15_OneInterval ==
    RunToEnd =>
        \A i \in 1..n :
            IF procs[i].remaining = 0
            THEN /\ procs[i].completion - procs[i].start = procs[i].burst
                 /\ procs[i].start >= procs[i].arrival
                 /\ \E k \in EntriesOf(procs[i].pid) :
                        /\ EntriesOf(procs[i].pid) = {k}
                        /\ BeginOf(k) = procs[i].start
                        /\ gantt[k][2] = procs[i].burst
                 /\ \A j \in 1..n : (j # i /\ procs[j].remaining = 0) =>
                        \/ procs[i].completion <= procs[j].start
                        \/ procs[j].completion <= procs[i].start
            ELSE EntriesOf(procs[i].pid) = {}

\* a returned sjf run of three processes with an idle gap, in which a process
\* waited and then ran before a process that had arrived before it
C15_Witness ==
    /\ Returned /\ algo = "sjf" /\ n = 3
    /\ IdleTime(gantt) > 0
    /\ \E i, j \in 1..n :
        /\ procs[i].arrival < procs[j].arrival
        /\ procs[j].start > procs[j].arrival
        /\ procs[j].completion <= procs[i].start

\* the order of ready.sort in sjf: (burst, arrival, pid)
BurstBefore(i, j) ==
    \/ procs[i].burst < procs[j].burst
    \/ /\ procs[i].burst = procs[j].burst
       /\ \/ procs[i].arrival < procs[j].arrival
          \/ procs[i].arrival = procs[j].arrival /\ procs[i].pid < procs[j].pid

\* C16: in sjf, for every list order, the step taken at a decision point at
\* which some arrived process is unfinished dispatches a process, and that
\* process is arrived, unfinished and before every other arrived, unfinished
\* process in the order (burst, arrival, id).
C16_SjfShortestFirst ==
    [][(algo = "sjf" /\ pc = "decide" /\ \E j \in 1..n : Pending(j)) =>
        \E i \in 1..n :
            /\ Pending(i)
            /\ Dispatched(i) /\ Runs(i)
            /\ \A j \in 1..n : (j # i /\ Pending(j)) => BurstBefore(i, j)]_vars

\* sjf, on a list that is not ordered by arrival, has run a process while a
\* longer one that arrived earlier is still waiting
C16_Witness ==
    /\ algo = "sjf" /\ ~ArrivalOrdered /\ cur # 0
    /\ procs[cur].remaining = 0 /\ procs[cur].completion = time
    /\ \E j \in 1..n :
        /\ procs[j].remaining > 0
        /\ procs[j].arrival < procs[cur].arrival
        /\ procs[j].burst > procs[cur].burst

\* the call of the SRTF scenario: P1(0,8), P2(1,4)
ScenarioSRTF ==
    /\ algo = "srtf"
    /\ processes = <<Process(1, 0, 8), Process(2, 1, 4)>>

ScenarioSRTFTimeline ==
    <<<<PidLabel(1), 1>>, <<PidLabel(2), 4>>, <<PidLabel(1), 7>>>>

\* C17: the SRTF scenario returns the timeline [(P1,1),(P2,4),(P1,7)] with
\* P1 started at 0, P2 started at 1, P2.completion = 5 and P1.completion = 12.
C17_ScenarioSrtf ==
    (ScenarioSRTF /\ Returned) =>
        /\ gantt = ScenarioSRTFTimeline
        /\ procs[ByPid(1)].start = 0
        /\ procs[ByPid(2)].start = 1
        /\ procs[ByPid(2)].completion = 5
        /\ procs[ByPid(1)].completion = 12

\* the SRTF scenario has returned
C17_Witness == ScenarioSRTF /\ Returned /\ completed = 2 /\ time = 12

\* C18: for every valid input and valid parameters, each of the five policies
\* returns, and when it has returned every process has remaining = 0 and the
\* clock equals the largest completion time.
C18_Terminates ==
    /\ <>Returned
    /\ [](Returned =>
            /\ n = Len(processes) /\ completed <= n
            /\ \A i \in 1..n : procs[i].remaining = 0
            /\ time = MaxCompletion)

\* a returned mlfq run of three processes, each with burst, quanta and
\* allotments > 0, that idled and sent a process down to level 1
C18_Witness ==
    /\ Returned /\ algo = "mlfq" /\ n = 3
    /\ IdleTime(gantt) > 0
    /\ \E i \in 1..n : procs[i].queue_level >= 1
    /\ \A i \in 1..n : procs[i].remaining = 0

\* the latest and the earliest arrival of the input
LatestArrival ==
    CHOOSE a \in {processes[i].arrival : i \in 1..Len(processes)} :
        \A i \in 1..Len(processes) : processes[i].arrival <= a

EarliestArrival ==
    CHOOSE a \in {processes[i].arrival : i \in 1..Len(processes)} :
        \A i \in 1..Len(processes) : processes[i].arrival >= a

\* C19 as stated: in every policy the final clock is at most the sum of the
\* bursts plus (latest arrival - earliest arrival).
C19_ClockBoundBySpan ==
    Returned => time <= SumBurst(processes) + (LatestArrival - EarliestArrival)

\* C19: in every policy the final clock is at most the sum of the bursts plus
\* the latest arrival (the clock starts at 0, not at the earliest arrival).
C19_ClockBound ==
    Returned => time <= SumBurst(processes) + LatestArrival

\* a returned run of at least two processes, none arriving at time 0, whose
\* final clock is the sum of the bursts plus the latest arrival
C19_Witness ==
    /\ Returned /\ n >= 2
    /\ EarliestArrival > 0
    /\ time = SumBurst(processes) + LatestArrival

\* C20 as stated: after the call of any of the five policies, every record of
\* the caller's list has the fields it had when it was constructed.
C20_CallerListUntouched ==
    Returned =>
        \A i \in 1..Len(processes) :
            /\ processes[i].remaining = processes[i].burst
            /\ processes[i].start = -1
            /\ processes[i].completion = 0
            /\ processes[i].turnaround = 0
            /\ processes[i].waiting = 0
            /\ processes[i].response = -1

\* the timeline label belongs to the process with the given pid
LabelOf(label, pid) ==
    label = PidLabel(pid) \/ \E L \in Levels : label = MlfqLabel(pid, L)

\* the time credited to the process with the given pid in the timeline g
RECURSIVE Credited(_, _)
Credited(g, pid) ==
    IF g = <<>> THEN 0
    ELSE (IF LabelOf(g[1][1], pid) THEN g[1][2] ELSE 0)
             + Credited(Tail(g), pid)

\* C23: in every policy and in every state of a run, burst - remaining of a
\* process is the sum of the durations of the timeline entries that carry its
\* id (at any mlfq level); in the returned timeline this sum is its burst.
C23_TimelineCredits ==
    /\ \A i \in 1..n :
        procs[i].burst - procs[i].remaining = Credited(gantt, procs[i].pid)
    /\ Returned =>
        \A i \in 1..n : Credited(gantt, procs[i].pid) = procs[i].burst

\* mlfq, in the middle of a run, has credited a process at two levels and
\* another process in part
C23_Witness ==
    /\ algo = "mlfq" /\ ~Returned
    /\ \E i, j \in 1..n :
        /\ i # j
        /\ \E k, l \in 1..Len(gantt) :
            /\ gantt[k][1] = MlfqLabel(procs[i].pid, 0)
            /\ gantt[l][1] = MlfqLabel(procs[i].pid, 1)
        /\ 0 < procs[j].remaining /\ procs[j].remaining < procs[j].burst

\* the sequence s begins with the sequence t
StartsWith(s, t) == Len(t) <= Len(s) /\ SubSeq(s, 1, Len(t)) = t

\* the last timeline entry of the process with the given pid, 0 if none
LastEntryOf(pid) ==
    IF EntriesOf(pid) = {} THEN 0
    ELSE CHOOSE k \in EntriesOf(pid) : \A l \in EntriesOf(pid) : l <= k

\* procs[j] was in round_robin's queue at clock value T, when another process
\* was put back: it was unfinished then and had been dispatched before or,
\* on a list ordered by arrival, had arrived
InQueueAt(j, T) ==
    /\ procs[j].remaining > 0 \/ procs[j].completion > T
    /\ \/ procs[j].start # -1 /\ procs[j].start < T
       \/ ArrivalOrdered /\ procs[j].arrival <= T

\* C24: in round_robin, a dispatch takes the head of the queue and leaves the
\* others in their order, and any other step only appends to the queue; when
\* a process p is dispatched again, every other process that was in the queue
\* when p was put back has exactly one timeline entry since p's last one, of
\* at most one quantum, and no process has more than one.
C24_QueueIsFifo ==
    [][algo = "round_robin" =>
        /\ IF \E i \in 1..n : Runs(i)
           THEN /\ queue # <<>>
                /\ Runs(Head(queue)) /\ Dispatched(Head(queue))
                /\ StartsWith(queue', Tail(queue))
           ELSE StartsWith(queue', queue)
        /\ \A i \in 1..n : (Runs(i) /\ procs[i].start # -1) =>
            LET k == LastEntryOf(procs[i].pid)
                T == BeginOf(k) + gantt[k][2]
                Since(j) == {l \in (k + 1)..Len(gantt) :
                                gantt[l][1] = PidLabel(procs[j].pid)}
            IN  /\ k > 0
                /\ \A l \in (k + 1)..Len(gantt) :
                       gantt[l][1] # IDLE /\ gantt[l][2] <= quantum
                /\ \A j \in 1..n : j # i =>
                       /\ Cardinality(Since(j)) <= 1
                       /\ InQueueAt(j, T) => Cardinality(Since(j)) = 1]_vars

\* round_robin has dispatched a process again after the two other processes,
\* which were queued with it, each ran once
C24_Witness ==
    /\ algo = "round_robin" /\ n = 3 /\ cur # 0
    /\ Len(gantt) >= 4
    /\ gantt[Len(gantt)][1] = PidLabel(procs[cur].pid)
    /\ gantt[Len(gantt) - 3][1] = PidLabel(procs[cur].pid)
    /\ gantt[Len(gantt) - 1][1] # gantt[Len(gantt) - 2][1]
    /\ gantt[Len(gantt) - 1][1] # IDLE /\ gantt[Len(gantt) - 2][1] # IDLE

\* every process of the list has burst > 0 and no two have the same id
ValidWorkload(ps) ==
    /\ \A i \in 1..Len(ps) : ps[i].burst > 0
    /\ \A i, j \in 1..Len(ps) : i # j => ps[i].pid # ps[j].pid

\* an add_process that answers with one of the two refusals of the workload
AddRefused ==
    /\ AddProcess
    /\ action_msg' \in {Msg("Execution time must be greater than 0"),
                        Msg("Duplicate PID detected")}

\* C21: an add_process with burst <= 0 or with an id that the workload
\* already holds leaves the workload as it is; the stored workload always has
\* bursts > 0 and pairwise different ids, and so has every list on which a
\* policy function is running
C21_WorkloadValid ==
    /\ [][AddRefused => UNCHANGED self_processes]_vars
    /\ [](ValidWorkload(self_processes)
            /\ (sim_pc = "call" => ValidWorkload(processes)))

\* a policy function has run on a workload of two, after add_process had
\* refused a duplicate id
C21_Witness ==
    /\ action_msg = Msg("Duplicate PID detected")
    /\ sim_pc = "call" /\ Returned
    /\ Len(processes) = 2

\* C25: every stored process, and every process of a list on which a policy
\* function is running, has arrival >= 0.  add_process tests the burst only:
\* an arrival entry of -1 is stored, so this does not hold of the program
C25_ArrivalNonNegative ==
    /\ \A i \in 1..Len(self_processes) : self_processes[i].arrival >= 0
    /\ sim_pc = "call" => \A i \in 1..Len(processes) : processes[i].arrival >= 0

\* the cases in which start_simulation has to refuse
MustRefuse ==
    \/ self_processes = <<>>
    \/ selected_algorithm = "Round Robin" /\ self_quantum <= 0
    \/ selected_algorithm = "MLFQ"
        /\ \E L \in Levels : mlfq_quanta[L] <= 0 \/ mlfq_allot[L] <= 0

\* nothing of a run changes: no thread is started, no policy function is
\* called or advanced, the stored timeline stays
NoRun ==
    /\ sim_running' = sim_running /\ sim_threads' = sim_threads
    /\ sim_pc' = sim_pc /\ gantt_data' = gantt_data
    /\ UNCHANGED <<algo, processes, procs, time, gantt, pc>>

\* the worker leaves the beginning of simulate
SimulateBegins == sim_pc = "begin" /\ sim_pc' # "begin"

\* C22: a start_simulation with an empty workload, with Round Robin and a
\* quantum <= 0, or with MLFQ and some quantum or allotment <= 0 starts no run:
\* sim_running, the threads, the policy call and gantt_data stay as they are;
\* and a simulate that reads a name other than the five calls no policy
\* function, leaves gantt_data as it is and ends with sim_running False
C22_RefusedStartsNoRun ==
    /\ [][StartSimulation /\ MustRefuse => NoRun]_vars
    /\ [][SimulateBegins /\ selected_algorithm \notin AlgorithmNames
            => /\ gantt_data' = gantt_data /\ ~sim_running' /\ sim_pc' = "none"
               /\ UNCHANGED <<algo, processes, procs, time, gantt, pc>>]_vars

\* start_simulation has refused MLFQ for the allotment of the last level,
\* with a workload present and the timeline of an earlier run stored
C22_Witness ==
    /\ action_msg = <<"Queue allotment must be greater than 0", NumLevels - 1>>
    /\ selected_algorithm = "MLFQ" /\ mlfq_allot[NumLevels - 1] <= 0
    /\ self_processes # <<>> /\ gantt_data # <<>>
    /\ ~sim_running /\ sim_pc = "none"

\* C26: at most one simulate thread exists at a time; sim_running is True
\* exactly while one exists, from the step that accepts a request to the step
\* in which that worker's simulate ends; and a start_simulation taken while
\* sim_running is True starts no thread and leaves the worker where it is
C26_OneWorker ==
    /\ [](sim_threads <= 1)
    /\ [](sim_running <=> sim_threads = 1)
    /\ [](sim_running <=> sim_pc \in {"begin", "call"})
    /\ [][StartSimulation /\ sim_running
            => /\ sim_threads' = sim_threads /\ sim_pc' = sim_pc
               /\ sim_running']_vars
    /\ [][~sim_running /\ sim_running' => StartSimulation]_vars
    /\ [][sim_running /\ ~sim_running' => SimulateEnd \/ SimulateUnknown]_vars

\* a request has been refused as "already running" while the worker is inside
\* a policy function that has not yet returned
C26_Witness ==
    /\ action_msg = Msg("Simulation already running")
    /\ sim_running /\ sim_threads = 1
    /\ sim_pc = "call" /\ ~Returned /\ gantt # <<>>

====
